---- MODULE Spec2Model ----
(***************************************************************************)
(* Model of app/pages/dashboard.py: the two cached fetch functions         *)
(* (fetch_yfinance_data, baixar_dados), the refresh button and the page    *)
(* run of main(), executed by several browser sessions that share the      *)
(* process-wide st.cache_data caches.                                      *)
(***************************************************************************)
EXTENDS Integers, Sequences, FiniteSets, TLC

(* ---------------------------------------------------------------- bounds *)
NumSessions == 2      \* concurrent browser sessions
NumNames == 2         \* how many entries of the selectbox the sessions pick from
MaxRuns == 2          \* script runs (page loads, selections, refresh clicks) in a behaviour
TickLen == 900        \* seconds the clock advances by in one step
MaxRows == 2          \* rows of a provider table (pure-function runs)

(* ----------------------------------------------------- program constants *)
TTL_YF == 3600        \* @st.cache_data(ttl=3600) of fetch_yfinance_data
TTL_BAIXAR == 1800    \* @st.cache_data(ttl=1800) of baixar_dados
start_date == 1       \* '1994-07-01', as a day number
end_date == 3         \* tomorrow in Brasilia, as a day number (one civil day is modelled)

Sessions == 1..NumSessions

\* keys of the dict `indicadores`, in insertion order (the order of the selectbox
\* options); "Cambio USD/BRL" stands for the key written with a circumflex
options == << "Ibovespa", "PIB Total", "Taxa Selic", "IPCA Mensal",
              "Cambio USD/BRL", "Taxa de Desemprego" >>

\* the registry; the numeric BCB codes are written as strings, like the ticker
indicadores ==
  [n \in {options[i] : i \in 1..Len(options)} |->
     CASE n = "Ibovespa"           -> [codigo |-> "^BVSP", fonte |-> "YF"]
       [] n = "PIB Total"          -> [codigo |-> "4380",  fonte |-> "BCB"]
       [] n = "Taxa Selic"         -> [codigo |-> "4189",  fonte |-> "BCB"]
       [] n = "IPCA Mensal"        -> [codigo |-> "433",   fonte |-> "BCB"]
       [] n = "Cambio USD/BRL"     -> [codigo |-> "3696",  fonte |-> "BCB"]
       [] n = "Taxa de Desemprego" -> [codigo |-> "24369", fonte |-> "BCB"]]

Registered == DOMAIN indicadores
Unknown == "Inexistente"                   \* a name that is not in the registry
AllNames == Registered \cup {Unknown}
Selectable == {options[i] : i \in 1..(IF NumNames < Len(options) THEN NumNames ELSE Len(options))}

(* ------------------------------------------------------------ data frames *)
\* A cell is <<v>> for a number v and <<>> for a missing value (NaN).
NaN == << >>
Num(v) == << v >>

\* pd.DataFrame(): no columns, no rows
EmptyDF == [cols |-> << >>, rows |-> << >>]

\* DataFrame.empty: some axis has length 0
IsEmpty(df) == Len(df.cols) = 0 \/ Len(df.rows) = 0

HasCol(df, c) == \E i \in 1..Len(df.cols) : df.cols[i] = c
ColIndex(df, c) == CHOOSE i \in 1..Len(df.cols) : df.cols[i] = c

\* data.iloc[:, [i]].copy() followed by `.columns = [label]`
OneColumn(df, i, label) ==
  [cols |-> << label >>,
   rows |-> [k \in 1..Len(df.rows) |->
               [date |-> df.rows[k].date, vals |-> << df.rows[k].vals[i] >>]]]

None == [none |-> TRUE]

\* what a cached function hands back: the frame and the st.* messages it emitted
\* (st.cache_data stores and replays both)
Ret(df, msgs) == [df |-> df, msgs |-> msgs]

\* outcome of running a function body: a return value or an escaping exception
Returned(df, msgs) == [raised |-> FALSE, ret |-> Ret(df, msgs)]
Raised == [raised |-> TRUE, ret |-> Ret(EmptyDF, << >>)]

\* a provider call ends with an exception or with a table
Exc == [exc |-> TRUE, data |-> EmptyDF]
Table(df) == [exc |-> FALSE, data |-> df]

(* ---------------------------------------------------- fetch_yfinance_data *)
\* (variant: the Close column is not looked for)
fetch_yfinance_data_first(ticker, resp) ==
  IF resp.exc
    THEN Returned(EmptyDF, << "error: Erro ao buscar" >>)
    ELSE IF IsEmpty(resp.data)
           THEN Returned(EmptyDF, << "warning: Nenhum dado encontrado" >>)
           ELSE Returned(OneColumn(resp.data, 1, ticker), << >>)

\* body of fetch_yfinance_data, given what yf.download did
fetch_yfinance_data(ticker, resp) ==
  IF resp.exc
    THEN Returned(EmptyDF, << "error: Erro ao buscar" >>)
    ELSE LET data == resp.data IN
         IF IsEmpty(data)
           THEN Returned(EmptyDF, << "warning: Nenhum dado encontrado" >>)
         ELSE IF HasCol(data, "Close")
           THEN Returned(OneColumn(data, ColIndex(data, "Close"), ticker), << >>)
         ELSE IF Len(data.cols) > 0
           THEN Returned(OneColumn(data, 1, ticker), << >>)
         ELSE Returned(EmptyDF, << >>)

(* ------------------------------------------------------------ baixar_dados *)
\* sgs.get({indicador_nome: codigo}, ...): the library labels the one series it
\* fetched with the requested name
sgs_get(nome, resp) ==
  IF IsEmpty(resp.data) THEN resp.data
  ELSE OneColumn(resp.data, 1, nome)

\* (variant: the registry is indexed without the check of line 106)
baixar_dados_unknown_keyerror(nome) == Raised

\* baixar_dados, unknown name: lines 106-108
baixar_dados_unknown(nome) ==
  Returned(EmptyDF, << "error: Indicador nao encontrado" >>)

\* baixar_dados, YF branch: returns what fetch_yfinance_data returned; an
\* exception of the callee is caught at line 121
baixar_dados_yf(nome, inner) ==
  IF inner.raised
    THEN Returned(EmptyDF, << "error: Erro ao processar" >>)
    ELSE Returned(inner.ret.df, inner.ret.msgs)

\* (variant: no try/except around sgs.get)
baixar_dados_bcb_uncaught(nome, resp) ==
  IF resp.exc THEN Raised ELSE Returned(sgs_get(nome, resp), << >>)

\* baixar_dados, BCB branch, given what sgs.get did
baixar_dados_bcb(nome, resp) ==
  IF resp.exc
    THEN Returned(EmptyDF, << "error: Erro ao processar" >>)
    ELSE Returned(sgs_get(nome, resp), << >>)

(* ------------------------------------------------------------------ state *)
VARIABLES
  dataCache,   \* cache of baixar_dados: name -> None or [age, ret]
  yfCache,     \* cache of fetch_yfinance_data: (ticker, start, end) -> None or [age, ret]
  lockB,       \* per-key compute lock of the baixar_dados cache: 0 or the holder
  lockY,       \* per-key compute lock of the fetch_yfinance_data cache
  pc,          \* where each session's script run is
  sel,         \* indicador_selecionado of each session
  result,      \* `dados` of each session's run (None before line 160 returns)
  view,        \* what the last finished run of each session rendered
  runs,        \* script runs started so far
  reqs,        \* history: upstream requests the session's current call has made
  ranBody,     \* history: "no", or, for a call that runs the body, what its first
               \*          read found: "miss" (no entry) or "expired" (one past its TTL)
  failed,      \* history: the provider call of the session's last call raised
  hist,        \* history: per name, the last completed call since the last clear
  prev,        \* history: hist[sel] as it was when the session's call completed
  refr,        \* history: "no", or how the session's refresh went ("clean"/"dirty")
  had,         \* history: the refresh removed an unexpired entry of the selection
  cacheTtl,    \* the ttl each cache was created with by its decorator
  probe        \* input and output of a pure-function run

vars == << dataCache, yfCache, lockB, lockY, pc, sel, result, view, runs,
           reqs, ranBody, failed, hist, prev, refr, had, cacheTtl, probe >>

YFKey(n) == << indicadores[n].codigo, start_date, end_date >>
YFNames == {n \in Registered : indicadores[n].fonte = "YF"}
YFKeys == {YFKey(n) : n \in YFNames}

\* An entry records its age, now - insertedAt, instead of insertedAt; an entry is
\* served while less than its ttl has passed since it was stored.
Fresh(e, ttl) == e # None /\ e.age < ttl

\* time passing by d: ages stop growing at the ttl, where the entry is expired
Older(e, d, ttl) ==
  IF e = None THEN None
  ELSE [e EXCEPT !.age = IF e.age + d < ttl THEN e.age + d ELSE ttl]

\* the compute lock of a key can be taken
LockFreeAlways(l, k) == TRUE
LockFree(l, k) == l[k] = 0

\* what the cache keeps of a computed value
StoreNonEmpty(old, ret) == IF IsEmpty(ret.df) THEN old ELSE [age |-> 0, ret |-> ret]
Store(old, ret) == [age |-> 0, ret |-> ret]

\* .clear() of a cached function
ClearNothing(cache) == cache
Clear(cache) == [k \in DOMAIN cache |-> None]

(* ------------------------------------------------- what the providers send *)
T_close ==
  [cols |-> << "Open", "Close" >>,
   rows |-> << [date |-> 2, vals |-> << Num(5), Num(6) >>],
               [date |-> 3, vals |-> << Num(6), NaN >>] >>]
T_serie ==
  [cols |-> << "valor" >>,
   rows |-> << [date |-> 2, vals |-> << Num(7) >>] >>]

YFLive == {Exc, Table(T_close)}
BCBLive == {Exc, Table(T_serie)}

InitPage ==
  /\ dataCache = [n \in AllNames |-> None]
  /\ yfCache = [k \in YFKeys |-> None]
  /\ lockB = [n \in AllNames |-> 0]
  /\ lockY = [k \in YFKeys |-> 0]
  /\ pc = [s \in Sessions |-> "idle"]
  /\ sel = [s \in Sessions |-> options[1]]
  /\ result = [s \in Sessions |-> None]
  /\ view = [s \in Sessions |-> "none"]
  /\ runs = 0
  /\ reqs = [s \in Sessions |-> 0]
  /\ ranBody = [s \in Sessions |-> "no"]
  /\ failed = [s \in Sessions |-> FALSE]
  /\ hist = [n \in AllNames |-> None]
  /\ prev = [s \in Sessions |-> None]
  /\ refr = [s \in Sessions |-> "no"]
  /\ had = [s \in Sessions |-> FALSE]
  /\ cacheTtl = [fetch_yfinance_data |-> TTL_YF, baixar_dados |-> TTL_BAIXAR]

Init == InitPage /\ probe = None

\* a store by session s spoils the refresh of every other session
Spoil(s) == [t \in Sessions |-> IF t # s /\ refr[t] = "clean" THEN "dirty" ELSE refr[t]]

\* what a read that does not hit finds in the cache
Found(e) == IF e = None THEN "miss" ELSE "expired"

\* cache hit: the call of session s returns the value of entry e; nothing is written
Hit(s, e) ==
  /\ result' = [result EXCEPT ![s] = e.ret]
  /\ pc' = [pc EXCEPT ![s] = "render"]
  /\ prev' = [prev EXCEPT ![s] = hist[sel[s]]]
  /\ hist' = [hist EXCEPT ![sel[s]] = [ret |-> e.ret, reqs |-> reqs[s], age |-> e.age]]

\* the body of baixar_dados ended with outcome `out` after `r` upstream requests:
\* the wrapper stores a returned value under the name, releases the lock and
\* returns; an escaping exception ends the script run
Finish(s, out, r) ==
  LET n == sel[s] IN
  /\ lockB' = [lockB EXCEPT ![n] = 0]
  /\ reqs' = [reqs EXCEPT ![s] = r]
  /\ IF out.raised
       THEN /\ pc' = [pc EXCEPT ![s] = "crashed"]
            /\ UNCHANGED << dataCache, result, prev, hist, refr >>
       ELSE /\ dataCache' = [dataCache EXCEPT ![n] = Store(dataCache[n], out.ret)]
            /\ result' = [result EXCEPT ![s] = out.ret]
            /\ pc' = [pc EXCEPT ![s] = "render"]
            /\ prev' = [prev EXCEPT ![s] = hist[n]]
            /\ hist' = [hist EXCEPT ![n] = [ret |-> out.ret, reqs |-> r, age |-> 0]]
            /\ refr' = Spoil(s)

(* ---------------------------------------------------------------- actions *)
\* a script run of main() starts (first load, or the user picked indicator n)
\* and reaches line 160
Run(s, n) ==
  /\ pc[s] = "idle"
  /\ runs < MaxRuns
  /\ runs' = runs + 1
  /\ pc' = [pc EXCEPT ![s] = "call"]
  /\ sel' = [sel EXCEPT ![s] = n]
  /\ failed' = [failed EXCEPT ![s] = FALSE]
  /\ UNCHANGED << dataCache, yfCache, lockB, lockY, result, view, reqs, ranBody,
                  hist, prev, refr, had, cacheTtl, probe >>

\* baixar_dados(indicador_selecionado): the wrapper's first read of the cache
Call(s) ==
  /\ pc[s] = "call"
  /\ LET e == dataCache[sel[s]] IN
     IF Fresh(e, cacheTtl.baixar_dados)
       THEN /\ Hit(s, e)
            /\ UNCHANGED ranBody
       ELSE /\ pc' = [pc EXCEPT ![s] = "waitB"]
            /\ ranBody' = [ranBody EXCEPT ![s] = Found(e)]
            /\ UNCHANGED << result, prev, hist >>
  /\ UNCHANGED << dataCache, yfCache, lockB, lockY, sel, view, runs, reqs,
                  failed, refr, had, cacheTtl, probe >>

\* the wrapper takes the key's compute lock, reads the cache again and, on a
\* miss, runs the body of baixar_dados up to its provider call
EnterB(s) ==
  LET n == sel[s]
      e == dataCache[n] IN
  /\ pc[s] = "waitB"
  /\ LockFree(lockB, n)
  /\ IF Fresh(e, cacheTtl.baixar_dados)
       THEN /\ Hit(s, e)
            /\ ranBody' = [ranBody EXCEPT ![s] = "no"]
            /\ UNCHANGED << dataCache, lockB, reqs, refr >>
     ELSE IF n \notin Registered
       THEN /\ Finish(s, baixar_dados_unknown(n), 0)
            /\ UNCHANGED ranBody
     ELSE IF indicadores[n].fonte = "YF"
       THEN IF Fresh(yfCache[YFKey(n)], cacheTtl.fetch_yfinance_data)
              THEN /\ Finish(s, baixar_dados_yf(n, [raised |-> FALSE, ret |-> yfCache[YFKey(n)].ret]), 0)
                   /\ UNCHANGED ranBody
              ELSE /\ lockB' = [lockB EXCEPT ![n] = s]
                   /\ pc' = [pc EXCEPT ![s] = "waitY"]
                   /\ UNCHANGED << dataCache, result, prev, hist, reqs, ranBody, refr >>
     ELSE /\ lockB' = [lockB EXCEPT ![n] = s]
          /\ pc' = [pc EXCEPT ![s] = "bcbReq"]
          /\ reqs' = [reqs EXCEPT ![s] = 1]
          /\ UNCHANGED << dataCache, result, prev, hist, ranBody, refr >>
  /\ UNCHANGED << yfCache, lockY, sel, view, runs, failed, had, cacheTtl, probe >>

\* fetch_yfinance_data's wrapper takes its key's lock and reads its cache again;
\* on a miss yf.download is sent
EnterY(s) ==
  LET n == sel[s]
      k == YFKey(n) IN
  /\ pc[s] = "waitY"
  /\ LockFree(lockY, k)
  /\ IF Fresh(yfCache[k], cacheTtl.fetch_yfinance_data)
       THEN /\ Finish(s, baixar_dados_yf(n, [raised |-> FALSE, ret |-> yfCache[k].ret]), 0)
            /\ UNCHANGED lockY
       ELSE /\ lockY' = [lockY EXCEPT ![k] = s]
            /\ pc' = [pc EXCEPT ![s] = "yfReq"]
            /\ reqs' = [reqs EXCEPT ![s] = 1]
            /\ UNCHANGED << dataCache, lockB, result, prev, hist, refr >>
  /\ UNCHANGED << yfCache, sel, view, runs, ranBody, failed, had, cacheTtl, probe >>

\* yf.download ends: fetch_yfinance_data finishes and is stored, then
\* baixar_dados finishes and is stored
YFRespond(s, resp) ==
  LET n == sel[s]
      k == YFKey(n)
      inner == fetch_yfinance_data(indicadores[n].codigo, resp) IN
  /\ pc[s] = "yfReq"
  /\ lockY' = [lockY EXCEPT ![k] = 0]
  /\ yfCache' = [yfCache EXCEPT ![k] = IF inner.raised THEN @ ELSE Store(@, inner.ret)]
  /\ failed' = [failed EXCEPT ![s] = resp.exc]
  /\ Finish(s, baixar_dados_yf(n, inner), 1)
  /\ UNCHANGED << sel, view, runs, ranBody, had, cacheTtl, probe >>

\* sgs.get ends: baixar_dados finishes and is stored
BCBRespond(s, resp) ==
  /\ pc[s] = "bcbReq"
  /\ failed' = [failed EXCEPT ![s] = resp.exc]
  /\ Finish(s, baixar_dados_bcb(sel[s], resp), 1)
  /\ UNCHANGED << yfCache, lockY, sel, view, runs, ranBody, had, cacheTtl, probe >>

\* lines 162-270: the rest of the page, with `dados`; the run ends
Render(s) ==
  /\ pc[s] = "render"
  /\ view' = [view EXCEPT ![s] = IF IsEmpty(result[s].df) THEN "sem_dados" ELSE "grafico"]
  /\ pc' = [pc EXCEPT ![s] = "idle"]
  /\ result' = [result EXCEPT ![s] = None]
  /\ reqs' = [reqs EXCEPT ![s] = 0]
  /\ ranBody' = [ranBody EXCEPT ![s] = "no"]
  /\ prev' = [prev EXCEPT ![s] = None]
  /\ refr' = [refr EXCEPT ![s] = "no"]
  /\ had' = [had EXCEPT ![s] = FALSE]
  /\ UNCHANGED << dataCache, yfCache, lockB, lockY, sel, runs, failed, hist, cacheTtl, probe >>

\* the user clicks "Atualizar dados": the script reruns and takes line 142
ClickRefresh(s) ==
  /\ pc[s] = "idle"
  /\ runs < MaxRuns
  /\ runs' = runs + 1
  /\ pc' = [pc EXCEPT ![s] = "clearYF"]
  /\ failed' = [failed EXCEPT ![s] = FALSE]
  /\ UNCHANGED << dataCache, yfCache, lockB, lockY, sel, result, view, reqs,
                  ranBody, hist, prev, refr, had, cacheTtl, probe >>

\* line 144: fetch_yfinance_data.clear()
ClearYF(s) ==
  /\ pc[s] = "clearYF"
  /\ yfCache' = Clear(yfCache)
  /\ hist' = [n \in AllNames |-> None]
  /\ refr' = [refr EXCEPT ![s] = "clean"]
  /\ pc' = [pc EXCEPT ![s] = "clearBaixar"]
  /\ UNCHANGED << dataCache, lockB, lockY, sel, result, view, runs, reqs,
                  ranBody, failed, prev, had, cacheTtl, probe >>

\* lines 145-146: baixar_dados.clear(), then st.rerun() restarts the script,
\* which reaches line 160 with the same selection
ClearBaixar(s) ==
  /\ pc[s] = "clearBaixar"
  /\ dataCache' = Clear(dataCache)
  /\ hist' = [n \in AllNames |-> None]
  /\ had' = [had EXCEPT ![s] = Fresh(dataCache[sel[s]], cacheTtl.baixar_dados)]
  /\ pc' = [pc EXCEPT ![s] = "call"]
  /\ UNCHANGED << yfCache, lockB, lockY, sel, result, view, runs, reqs, ranBody,
                  failed, prev, refr, cacheTtl, probe >>

\* TickLen seconds pass
Tick ==
  /\ dataCache' = [n \in AllNames |-> Older(dataCache[n], TickLen, cacheTtl.baixar_dados)]
  /\ yfCache' = [k \in YFKeys |-> Older(yfCache[k], TickLen, cacheTtl.fetch_yfinance_data)]
  /\ hist' = [n \in AllNames |-> Older(hist[n], TickLen, cacheTtl.baixar_dados)]
  /\ UNCHANGED << lockB, lockY, pc, sel, result, view, runs, reqs, ranBody,
                  failed, prev, refr, had, cacheTtl, probe >>

Next ==
  \/ \E s \in Sessions, n \in Selectable : Run(s, n)
  \/ \E s \in Sessions : Call(s)
  \/ \E s \in Sessions : EnterB(s)
  \/ \E s \in Sessions : EnterY(s)
  \/ \E s \in Sessions, resp \in YFLive : YFRespond(s, resp)
  \/ \E s \in Sessions, resp \in BCBLive : BCBRespond(s, resp)
  \/ \E s \in Sessions : Render(s)
  \/ \E s \in Sessions : ClickRefresh(s)
  \/ \E s \in Sessions : ClearYF(s)
  \/ \E s \in Sessions : ClearBaixar(s)
  \/ Tick

Spec == Init /\ [][Next]_vars

(* ------------------------------------------- baixar_dados called directly *)
\* baixar_dados is called with a name the selectbox does not offer
RunAny(s, n) == Run(s, n)

NextAny ==
  \/ \E s \in Sessions, n \in {options[1], Unknown} : RunAny(s, n)
  \/ \E s \in Sessions : Call(s)
  \/ \E s \in Sessions : EnterB(s)
  \/ \E s \in Sessions : EnterY(s)
  \/ \E s \in Sessions, resp \in YFLive : YFRespond(s, resp)
  \/ \E s \in Sessions : Render(s)
  \/ \E s \in Sessions : ClickRefresh(s)
  \/ \E s \in Sessions : ClearYF(s)
  \/ \E s \in Sessions : ClearBaixar(s)
  \/ Tick

SpecAny == Init /\ [][NextAny]_vars

(* ------------------------------- fetch_yfinance_data on any provider table *)
ColNames == {"Open", "Close", "Volume"}
Cells == {NaN, Num(1)}
Dates == start_date..end_date

\* sequences of at most n elements of S
SeqsUpTo(S, n) == UNION {[1..k -> S] : k \in 0..n}

\* column labels: at most two, no label twice
ColSeqs == {c \in SeqsUpTo(ColNames, 2) : \A i, j \in 1..Len(c) : i # j => c[i] # c[j]}

TablesOf(c) ==
  {[cols |-> c, rows |-> r] :
     r \in SeqsUpTo([date : Dates, vals : [1..Len(c) -> Cells]], MaxRows)}

ProviderTables == UNION {TablesOf(c) : c \in ColSeqs}
YFResponses == {Exc} \cup {Table(t) : t \in ProviderTables}

DataInit ==
  /\ InitPage
  /\ probe \in {[in |-> r, out |-> None] : r \in YFResponses}

\* fetch_yfinance_data runs on the response
ApplyYF ==
  /\ probe.out = None
  /\ probe' = [probe EXCEPT !.out = fetch_yfinance_data(indicadores[options[1]].codigo, probe.in)]
  /\ UNCHANGED << dataCache, yfCache, lockB, lockY, pc, sel, result, view, runs,
                  reqs, ranBody, failed, hist, prev, refr, had, cacheTtl >>

DataNext == ApplyYF

SpecData == DataInit /\ [][DataNext]_vars

(* ================================================================ claims *)
InBody(s) == pc[s] \in {"waitY", "yfReq", "bcbReq"}
AllEmpty(cache) == \A k \in DOMAIN cache : cache[k] = None

\* C1 -- Idempotence of the cached fetch: when a call of baixar_dados completes,
\* and the previous completed call with the same name (no cache clear since) got
\* an entry that is still within the TTL, the two calls return identical results
\* and made at most one upstream request together, whatever the first returned.
C1_Idempotent ==
  \A s \in Sessions :
    (pc[s] = "render" /\ prev[s] # None /\ prev[s].age < TTL_BAIXAR)
      => /\ result[s] = prev[s].ret
         /\ prev[s].reqs + reqs[s] <= 1

\* the first call fetched once and got an empty result; the second one is done
C1_Witness ==
  \E s \in Sessions :
    /\ pc[s] = "render" /\ prev[s] # None /\ prev[s].age < TTL_BAIXAR
    /\ prev[s].reqs = 1 /\ IsEmpty(prev[s].ret.df)

\* C2 (as claimed) -- Cache expiry: a call of baixar_dados for a registered
\* indicator that finds the entry of its name past the TTL fetches from the
\* upstream provider instead of returning previously cached data; and an entry is
\* only served within its TTL.
C2_Original ==
  /\ \A s \in Sessions :
       (pc[s] = "render" /\ sel[s] \in Registered /\ ranBody[s] = "expired")
         => reqs[s] >= 1
  /\ \A s \in Sessions :
       (pc[s] = "render" /\ ranBody[s] = "no" /\ hist[sel[s]] # None)
         => hist[sel[s]].age <= TTL_BAIXAR

C4_Absorbed ==
  \A s \in Sessions :
    /\ pc[s] # "crashed"
    /\ (failed[s] /\ pc[s] = "render") => result[s].df = EmptyDF
    /\ (failed[s] /\ pc[s] = "idle") => view[s] = "sem_dados"

\* a run whose provider call raised has reached its end
C4_Witness ==
  \E s \in Sessions : failed[s] /\ pc[s] = "idle" /\ view[s] = "sem_dados"

\* C5 (as claimed) -- Unknown indicator: a call with a name that is not in the
\* registry ends with an outcome the caller can tell apart from the empty table of
\* a registered indicator without data, and does not crash.
C5_Original ==
  \A s \in Sessions :
    /\ sel[s] \notin Registered => pc[s] # "crashed"
    /\ (sel[s] \notin Registered /\ pc[s] = "render") => result[s].df # EmptyDF

\* C5 (amended) -- a call with a name that is not in the registry returns the
\* empty table, the value a registered indicator without data returns, together
\* with the message "Indicador ... nao encontrado"; it makes no upstream request
\* and does not crash.
C5_UnknownIsEmpty ==
  \A s \in Sessions :
    /\ sel[s] \notin Registered => pc[s] # "crashed"
    /\ (sel[s] \notin Registered /\ pc[s] = "render")
         => /\ result[s] = Ret(EmptyDF, << "error: Indicador nao encontrado" >>)
            /\ reqs[s] = 0

\* a call with the unknown name has returned
C5_Witness ==
  \E s \in Sessions : sel[s] = Unknown /\ pc[s] = "render" /\ ranBody[s] # "no"

\* C6 (as claimed) -- Manual invalidation: after the refresh action both caches
\* are empty, and the request that follows it invokes the upstream provider.
C6_Original ==
  \A s \in Sessions :
    /\ (refr[s] # "no" /\ pc[s] = "call") => (AllEmpty(yfCache) /\ AllEmpty(dataCache))
    /\ (refr[s] # "no" /\ pc[s] = "render") => reqs[s] = 1

\* C6 (amended) -- each clear of the refresh action empties its cache; as long as
\* no other session has stored a result since the refresh began, both caches are
\* empty after it and the request that follows invokes the upstream provider,
\* even when the refresh removed an entry whose TTL had not elapsed.
C6_RefreshClears ==
  \A s \in Sessions :
    /\ (refr[s] = "clean" /\ pc[s] = "clearBaixar") => AllEmpty(yfCache)
    /\ (refr[s] = "clean" /\ (pc[s] \in {"call", "waitB"} \/ InBody(s)))
          => (AllEmpty(yfCache) /\ AllEmpty(dataCache))
    /\ (refr[s] = "clean" /\ pc[s] = "render") => reqs[s] = 1

\* a refresh removed an unexpired entry and the request after it fetched again
C6_Witness ==
  \E s \in Sessions : refr[s] = "clean" /\ had[s] /\ pc[s] = "render" /\ reqs[s] = 1

\* C7 (as claimed) -- TTL ordering: the TTL of fetch_yfinance_data's cache is
\* strictly shorter than the TTL of baixar_dados's cache.
C7_Original == cacheTtl.fetch_yfinance_data < cacheTtl.baixar_dados

\* C8 (as claimed) -- Uniform output shape: a non-empty table returned by
\* baixar_dados for a registered indicator has exactly one column, labelled with
\* the indicator's name.
C8_Original ==
  \A s \in Sessions :
    (pc[s] = "render" /\ sel[s] \in Registered /\ ~IsEmpty(result[s].df))
      => /\ Len(result[s].df.cols) = 1
         /\ result[s].df.cols[1] = sel[s]

\* C9 (as claimed) -- Normalized ordering: the series returned by baixar_dados
\* has strictly increasing dates, no missing value, and dates within
\* [start_date, end_date].
Normalized(df) ==
  /\ \A i, j \in 1..Len(df.rows) : i < j => df.rows[i].date < df.rows[j].date
  /\ \A i \in 1..Len(df.rows) :
       /\ \A c \in 1..Len(df.rows[i].vals) : df.rows[i].vals[c] # NaN
       /\ df.rows[i].date >= start_date /\ df.rows[i].date <= end_date

C9_Original ==
  \A s \in Sessions : pc[s] = "render" => Normalized(result[s].df)

\* the value of row k of the returned frame is the value of column i of the table
SameAsColumn(out, data, i) ==
  /\ Len(out.rows) = Len(data.rows)
  /\ \A k \in 1..Len(data.rows) :
       /\ out.rows[k].date = data.rows[k].date
       /\ out.rows[k].vals = << data.rows[k].vals[i] >>

Applied == probe # None /\ probe.out # None /\ ~probe.in.exc

\* C10 (as claimed) -- Market column selection: for a non-empty provider table
\* fetch_yfinance_data returns the Close column when there is one, otherwise the
\* first column and a record of the anomaly; a table without columns gives the
\* result of a no-data response.
C10_Original ==
  Applied =>
    LET data == probe.in.data
        ret == probe.out.ret IN
    /\ (~IsEmpty(data) /\ HasCol(data, "Close"))
         => SameAsColumn(ret.df, data, ColIndex(data, "Close"))
    /\ (~IsEmpty(data) /\ ~HasCol(data, "Close"))
         => (SameAsColumn(ret.df, data, 1) /\ ret.msgs # << >>)
    /\ Len(data.cols) = 0
         => ret = fetch_yfinance_data(indicadores[options[1]].codigo, Table(EmptyDF)).ret

\* C10 (amended) -- for a non-empty provider table fetch_yfinance_data returns
\* the Close column when there is one and otherwise the first column, whatever it
\* holds, in both cases as one column labelled with the ticker and without
\* recording anything; a table without rows or without columns gives the empty
\* table and the no-data warning.
C10_ColumnSelection ==
  Applied =>
    LET data == probe.in.data
        ret == probe.out.ret IN
    /\ ~probe.out.raised
    /\ (~IsEmpty(data) /\ HasCol(data, "Close"))
         => /\ SameAsColumn(ret.df, data, ColIndex(data, "Close"))
            /\ ret.df.cols = << "^BVSP" >> /\ ret.msgs = << >>
    /\ (~IsEmpty(data) /\ ~HasCol(data, "Close"))
         => /\ SameAsColumn(ret.df, data, 1)
            /\ ret.df.cols = << "^BVSP" >> /\ ret.msgs = << >>
    /\ IsEmpty(data)
         => ret = Ret(EmptyDF, << "warning: Nenhum dado encontrado" >>)

\* the function ran on a table whose Close column is not its first column
C10_Witness ==
  /\ Applied
  /\ ~IsEmpty(probe.in.data)
  /\ HasCol(probe.in.data, "Close") /\ ColIndex(probe.in.data, "Close") = 2

====
